---- MODULE Spec2Model ----
(***************************************************************************)
(* Model of the spectral-library scripts:                                  *)
(*   src/process_spectral_data.py   (readers, discovery, derivative,       *)
(*                                   plotter, pipeline driver main)        *)
(*   src/huggingface_integration.py (SpectralAnalyzer)                     *)
(* Text is modelled as a sequence of one-character strings, so that        *)
(* strip, lower, substring tests, replace and float parsing are computed.  *)
(***************************************************************************)
EXTENDS Integers, Sequences, FiniteSets, TLC

VARIABLES
    \* --- process_spectral_data.main ---
    pc,               \* position of main
    env,              \* the files on disk that main reads (wavelength file, tree)
    wavelengths,      \* main's local `wavelengths`
    mi,               \* index of the mineral being processed
    mineral_data,     \* main's local `mineral_data` (insertion-ordered dict)
    all_mineral_data, \* main's local `all_mineral_data`
    csvIdx,           \* position of the CSV loop in mineral_data.items()
    disk,             \* output files present on disk
    writes,           \* output files in the order they were written
    log,              \* messages printed
    openFigures,      \* pyplot figures opened and not closed
    faults,           \* rendering/export failures the environment has injected
    hist,             \* call counters and last plot, for the properties
    \* --- reader, discovery and analyzer harnesses ---
    rd,               \* a text file and what the readers returned for it
    fd,               \* a directory tree, a mineral name and what discovery returned
    hf                \* SpectralAnalyzer.analyze_spectrum in progress

vars == <<pc, env, wavelengths, mi, mineral_data, all_mineral_data, csvIdx, disk,
          writes, log, openFigures, faults, hist, rd, fd, hf>>
mainVars == <<pc, env, wavelengths, mi, mineral_data, all_mineral_data, csvIdx, disk,
              writes, log, openFigures, faults, hist>>

\* ------------------------------------------------------------------ bounds
MaxBody == 3        \* lines after the header in a reader test file
MaxDirFiles == 2    \* files per directory in a discovery test tree
MaxFiles == 2       \* spectral files in the tree main runs over
MaxFaults == 1      \* injected savefig / to_csv failures per run of main
MaxCalls == 2       \* analyze_spectrum calls in one analyzer run

\* --------------------------------------------------------- python values
None == [isNone |-> TRUE]
Some(x) == [isNone |-> FALSE, v |-> x]

\* ------------------------------------------------------------ str methods
UpperLetters == <<"A","B","C","D","E","F","G","H","I","J","K","L","M","N","O","P","Q","R","S","T","U","V","W","X","Y","Z">>
LowerLetters == <<"a","b","c","d","e","f","g","h","i","j","k","l","m","n","o","p","q","r","s","t","u","v","w","x","y","z">>
DigitChars == <<"0","1","2","3","4","5","6","7","8","9">>
Whitespace == {" ", "\t", "\n", "\r"}

IndexOf(c, s) == IF \E i \in 1..Len(s) : s[i] = c
                 THEN CHOOSE i \in 1..Len(s) : s[i] = c ELSE 0

\* the lower-case letter of each upper-case letter
LowerOf == [c \in {UpperLetters[i] : i \in 1..Len(UpperLetters)} |->
              LowerLetters[IndexOf(c, UpperLetters)]]
lower_char(c) == IF c \in DOMAIN LowerOf THEN LowerOf[c] ELSE c

\* str.lower()
lower(s) == [i \in 1..Len(s) |-> lower_char(s[i])]

StartsAt(s, sub, i) == /\ i + Len(sub) - 1 <= Len(s)
                       /\ \A j \in 1..Len(sub) : s[i + j - 1] = sub[j]

\* `sub in s`
contains(sub, s) == \E i \in 1..(Len(s) - Len(sub) + 1) : StartsAt(s, sub, i)

\* str.endswith(suffix)
endswith(s, suffix) == /\ Len(suffix) <= Len(s)
                       /\ SubSeq(s, Len(s) - Len(suffix) + 1, Len(s)) = suffix

RECURSIVE lstrip(_)
lstrip(s) == IF s # <<>> /\ s[1] \in Whitespace THEN lstrip(Tail(s)) ELSE s

RECURSIVE rstrip(_)
rstrip(s) == IF s # <<>> /\ s[Len(s)] \in Whitespace
             THEN rstrip(SubSeq(s, 1, Len(s) - 1)) ELSE s

\* str.strip()
strip(s) == rstrip(lstrip(s))

\* str.replace(old, new), old non-empty: non-overlapping occurrences, left to right
RECURSIVE replace(_, _, _)
replace(s, old, new) ==
    IF s = <<>> THEN <<>>
    ELSE IF StartsAt(s, old, 1)
         THEN new \o replace(SubSeq(s, Len(old) + 1, Len(s)), old, new)
         ELSE <<s[1]>> \o replace(Tail(s), old, new)

\* os.path.join(a, b)
join(a, b) == IF a = <<>> \/ (b # <<>> /\ b[1] = "/") THEN b
              ELSE IF a[Len(a)] = "/" THEN a \o b ELSE a \o <<"/">> \o b

\* os.path.basename(p)
basename(p) == LET seps == {i \in 1..Len(p) : p[i] = "/"}
               IN  IF seps = {} THEN p
                   ELSE SubSeq(p, (CHOOSE i \in seps : \A j \in seps : j <= i) + 1, Len(p))

\* ------------------------------------------------------------- float(text)
DigitOf == [c \in {DigitChars[i] : i \in 1..Len(DigitChars)} |-> IndexOf(c, DigitChars) - 1]
IsDigit(c) == c \in DOMAIN DigitOf

RECURSIVE DigitsValue(_)
DigitsValue(ds) == IF ds = <<>> THEN 0
                   ELSE 10 * DigitsValue(SubSeq(ds, 1, Len(ds) - 1))
                        + DigitOf[ds[Len(ds)]]

\* a decimal number num / 10^scale with no trailing fraction zero
RECURSIVE Decimal(_, _)
Decimal(num, scale) == IF scale > 0 /\ num % 10 = 0 THEN Decimal(num \div 10, scale - 1)
                       ELSE [num |-> num, scale |-> scale]

\* float(s) on the decimal grammar [sign] digits [. digits] | [sign] . digits
\* (exponents, inf and nan are not in the alphabet of the test files).
\* Returns [raised |-> TRUE] for ValueError.
py_float(s) ==
    LET t    == strip(s)
        neg  == t # <<>> /\ t[1] = "-"
        u    == IF t # <<>> /\ t[1] \in {"-", "+"} THEN Tail(t) ELSE t
        dot  == IndexOf(".", u)
        ip   == IF dot = 0 THEN u ELSE SubSeq(u, 1, dot - 1)
        fp   == IF dot = 0 THEN <<>> ELSE SubSeq(u, dot + 1, Len(u))
        ok   == /\ \A i \in 1..Len(ip) : IsDigit(ip[i])
                /\ \A i \in 1..Len(fp) : IsDigit(fp[i])
                /\ Len(ip) + Len(fp) > 0
        mag  == DigitsValue(ip \o fp)
    IN  IF ok THEN [raised |-> FALSE,
                    v |-> Decimal(IF neg THEN 0 - mag ELSE mag, Len(fp))]
        ELSE [raised |-> TRUE]

\* ----------------------------------------------------------------- readers
\* A text file: [exists, lines]; open() raises when exists is FALSE.
NoFile == [exists |-> FALSE, lines |-> <<>>]
TextFile(ls) == [exists |-> TRUE, lines |-> ls]

skip_header_keeps_all(lines) == lines

\* lines[1:]
skip_header(lines) == IF lines = <<>> THEN <<>> ELSE Tail(lines)

\* the filter `if line.strip()` of the comprehension
keep_line(line) == strip(line) # <<>>

\* [float(line.strip()) for line in ls if line.strip()]; stops at the first ValueError
RECURSIVE parse_lines(_)
parse_lines(ls) ==
    IF ls = <<>> THEN [raised |-> FALSE, v |-> <<>>]
    ELSE IF ~keep_line(ls[1]) THEN parse_lines(Tail(ls))
    ELSE LET x == py_float(strip(ls[1]))
         IN  IF x.raised THEN [raised |-> TRUE]
             ELSE LET rest == parse_lines(Tail(ls))
                  IN  IF rest.raised THEN rest
                      ELSE [raised |-> FALSE, v |-> <<x.v>> \o rest.v]

\* read_wavelength_file, given the file at wavelength_file; `except Exception`
\* turns every failure into None
read_wavelength_file(file) ==
    IF ~file.exists THEN None
    ELSE LET r == parse_lines(skip_header(file.lines))
         IN  IF r.raised THEN None ELSE Some(r.v)

\* read_spectral_file, given the file at file_path
read_spectral_file(file) ==
    IF ~file.exists THEN None
    ELSE LET r == parse_lines(skip_header(file.lines))
         IN  IF r.raised THEN None ELSE Some(r.v)

\* ----------------------------------------------------- calculate_derivative
WindowLength == 5
PolyOrder == 2

\* signal.savgol_filter(x, window_length, polyorder, deriv=1), mode 'interp':
\* raises ValueError when polyorder >= window_length or when window_length is
\* larger than the data; otherwise it returns one value per input value.  The
\* filter's arithmetic is the library's; the value at index i is kept symbolic.
savgol_raises(x, window_length, polyorder) ==
    \/ polyorder >= window_length
    \/ window_length > Len(x)

savgol_filter(x, window_length, polyorder) ==
    [i \in 1..Len(x) |-> [deriv |-> i]]

calculate_derivative(wl, reflectance) ==
    IF savgol_raises(reflectance, WindowLength, PolyOrder) THEN None
    ELSE Some(savgol_filter(reflectance, WindowLength, PolyOrder))

\* -------------------------------------------------------- find_mineral_files
ASDFR == <<"A","S","D","F","R">>
AREF == <<"A","R","E","F">>
DotTxt == <<".","t","x","t">>

name_matches_case_sensitive(mineral_name, file) ==
    /\ contains(mineral_name, file)
    /\ endswith(file, DotTxt)
    /\ contains(ASDFR, file)
    /\ contains(AREF, file)

\* the filter of lines 75-78
name_matches(mineral_name, file) ==
    /\ contains(lower(mineral_name), lower(file))
    /\ endswith(file, DotTxt)
    /\ contains(ASDFR, file)
    /\ contains(AREF, file)

\* A directory tree as os.walk yields it: dirs is the sequence of
\* [root, files] in traversal order; failAt = k > 0 makes the traversal raise
\* when it reaches the k-th directory.
RECURSIVE walk_files(_, _, _)
walk_files(mineral_name, root, files) ==
    IF files = <<>> THEN <<>>
    ELSE (IF name_matches(mineral_name, files[1]) THEN <<join(root, files[1])>> ELSE <<>>)
         \o walk_files(mineral_name, root, Tail(files))

RECURSIVE walk_dirs(_, _, _)
walk_dirs(mineral_name, tree, k) ==
    IF k > Len(tree.dirs) THEN [raised |-> FALSE, v |-> <<>>]
    ELSE IF tree.failAt = k THEN [raised |-> TRUE]
    ELSE LET rest == walk_dirs(mineral_name, tree, k + 1)
         IN  IF rest.raised THEN rest
             ELSE [raised |-> FALSE,
                   v |-> walk_files(mineral_name, tree.dirs[k].root, tree.dirs[k].files)
                         \o rest.v]

find_mineral_files(mineral_name, tree) ==
    LET r == walk_dirs(mineral_name, tree, 1)
    IN  IF r.raised THEN <<>> ELSE r.v

\* ================================================================ harnesses
\* Values of the variables of a program that is not running.
MainIdle == /\ pc = "idle" /\ env = <<>> /\ wavelengths = None /\ mi = 0
            /\ mineral_data = <<>> /\ all_mineral_data = <<>> /\ csvIdx = 0
            /\ disk = <<>> /\ writes = <<>> /\ log = <<>> /\ openFigures = 0
            /\ faults = 0 /\ hist = <<>>
RdIdle == rd = <<>>
FdIdle == fd = <<>>
HfIdle == hf = <<>>

\* ---------------------------------------------------------- reader harness
NL == <<"\n">>
Headers == {<<"h","d","r">>, <<"7">>, <<>>}
BodyLines == {<<>>, <<" ">>, <<"1">>, <<" ","2",".","5">>, <<"-","1"," ">>, <<"x">>, <<"1"," ","2">>, <<"0",".","5","0">>}

\* a header line and up to MaxBody further lines, each ended by a newline; the
\* empty file; or no file at all
RdInit ==
    \/ rd = [file |-> NoFile, step |-> "start", fn |-> "", result |-> None]
    \/ rd = [file |-> TextFile(<<>>), step |-> "start", fn |-> "", result |-> None]
    \/ \E h \in Headers, k \in 0..MaxBody : \E b \in [1..k -> BodyLines] :
          rd = [file |-> TextFile(<<h \o NL>> \o [i \in 1..k |-> b[i] \o NL]),
                step |-> "start", fn |-> "", result |-> None]

RdWavelength == /\ rd.step = "start"
                /\ rd' = [rd EXCEPT !.step = "done", !.fn = "read_wavelength_file",
                                    !.result = read_wavelength_file(rd.file)]
                /\ UNCHANGED <<mainVars, fd, hf>>

RdSpectral == /\ rd.step = "start"
              /\ rd' = [rd EXCEPT !.step = "done", !.fn = "read_spectral_file",
                                  !.result = read_spectral_file(rd.file)]
              /\ UNCHANGED <<mainVars, fd, hf>>

InitRead == RdInit /\ MainIdle /\ FdIdle /\ HfIdle
NextRead == RdWavelength \/ RdSpectral
SpecRead == InitRead /\ [][NextRead]_vars

\* ------------------------------------------------------- discovery harness
BasePath == <<"A","S","C","I","I","d","a","t","a","/","A","S","C","I","I","d","a","t","a","_","s","p","l","i","b","0","7","b","/","C","h","a","p","t","e","r","M","_","M","i","n","e","r","a","l","s">>
SubDir == join(BasePath, <<"s","u","b">>)

FinderNames == {<<"Q","u","a","r","t","z","_","A","S","D","F","R","_","A","R","E","F",".","t","x","t">>, <<"q","u","a","r","t","z","_","a","s","d","f","r","_","A","R","E","F",".","t","x","t">>,
                <<"q","u","a","r","t","z","_","A","S","D","F","R","_","A","R","E","F",".","T","X","T">>, <<"c","a","l","c","i","t","e","_","A","S","D","F","R","_","A","R","E","F",".","t","x","t">>,
                <<"Q","U","A","R","T","Z","_","A","S","D","F","R","_","R","R","E","F",".","t","x","t">>}
FinderMinerals == {<<"q","u","a","r","t","z">>, <<"Q","u","a","r","t","z">>, <<"c","a","l","c","i","t","e">>}

Injective(s) == \A i, j \in 1..Len(s) : s[i] = s[j] => i = j

\* base_path alone or with one subdirectory, distinct file names in each, and
\* possibly a traversal that raises at one of the directories
FdInit ==
    \E n \in 1..2, ka \in 0..MaxDirFiles, kb \in 0..MaxDirFiles :
    \E a \in [1..ka -> FinderNames], b \in [1..kb -> FinderNames] :
    \E k \in 0..n, m \in FinderMinerals :
        /\ Injective(a) /\ Injective(b)
        /\ n = 1 => kb = 0
        /\ fd = [tree |-> [dirs |-> IF n = 1 THEN <<[root |-> BasePath, files |-> a]>>
                                    ELSE <<[root |-> BasePath, files |-> a],
                                           [root |-> SubDir, files |-> b]>>,
                           failAt |-> k],
                 mineral |-> m, step |-> "start", result |-> <<>>]

FdFind == /\ fd.step = "start"
          /\ fd' = [fd EXCEPT !.step = "done",
                              !.result = find_mineral_files(fd.mineral, fd.tree)]
          /\ UNCHANGED <<mainVars, rd, hf>>

InitFind == FdInit /\ MainIdle /\ RdIdle /\ HfIdle
NextFind == FdFind
SpecFind == InitFind /\ [][NextFind]_vars

\* ====================================================== plot_spectra (41-64)
\* An insertion-ordered dict is a sequence of [key, val] with distinct keys.
dict_has(d, k) == \E i \in 1..Len(d) : d[i].key = k
dict_set(d, k, x) ==
    IF dict_has(d, k) THEN [i \in 1..Len(d) |-> IF d[i].key = k THEN [key |-> k, val |-> x] ELSE d[i]]
    ELSE Append(d, [key |-> k, val |-> x])

\* plt.plot(x, y) raises ValueError when x and y differ in length
plot_raises(x, y) == Len(x) # Len(y)

RECURSIVE plot_loop_abort(_, _, _, _)
plot_loop_abort(items, wl, derivative, k) ==
    IF k > Len(items) THEN [raised |-> FALSE, labels |-> <<>>]
    ELSE LET y_data == IF derivative THEN calculate_derivative(wl, items[k].val)
                       ELSE Some(items[k].val)
         IN  IF y_data.isNone \/ plot_raises(wl, y_data.v)
             THEN [raised |-> TRUE, labels |-> <<>>]
             ELSE LET rest == plot_loop_abort(items, wl, derivative, k + 1)
                  IN  IF rest.raised THEN rest
                      ELSE [raised |-> FALSE,
                            labels |-> <<basename(items[k].key)>> \o rest.labels]

\* The for loop of lines 45-52 over items[k..]: the labels plotted, in order,
\* or raised when plt.plot raised.
RECURSIVE plot_loop(_, _, _, _)
plot_loop(items, wl, derivative, k) ==
    IF k > Len(items) THEN [raised |-> FALSE, labels |-> <<>>]
    ELSE LET y_data == IF derivative THEN calculate_derivative(wl, items[k].val)
                       ELSE Some(items[k].val)
         IN  IF y_data.isNone THEN plot_loop(items, wl, derivative, k + 1)
             ELSE IF plot_raises(wl, y_data.v) THEN [raised |-> TRUE, labels |-> <<>>]
             ELSE LET rest == plot_loop(items, wl, derivative, k + 1)
                  IN  IF rest.raised THEN rest
                      ELSE [raised |-> FALSE,
                            labels |-> <<basename(items[k].key)>> \o rest.labels]

\* The try block of plot_spectra.  savefig_fails is the environment's choice for
\* plt.savefig.  figures: figures this call leaves open; saved: the image was
\* written; reached_save: plt.savefig was called.
plot_try(spectra_data, wl, derivative, savefig_fails) ==
    LET loop == plot_loop(spectra_data, wl, derivative, 1)
    IN  IF loop.raised
        THEN [raised |-> TRUE, figures |-> 1, saved |-> FALSE, reached_save |-> FALSE,
              labels |-> <<>>]
        ELSE IF savefig_fails
        THEN [raised |-> TRUE, figures |-> 1, saved |-> FALSE, reached_save |-> TRUE,
              labels |-> loop.labels]
        ELSE \* plt.savefig, then plt.close()
             [raised |-> FALSE, figures |-> 0, saved |-> TRUE, reached_save |-> TRUE,
              labels |-> loop.labels]

plot_spectra_no_except(spectra_data, wl, derivative, savefig_fails) ==
    LET t == plot_try(spectra_data, wl, derivative, savefig_fails)
    IN  t @@ [error |-> FALSE]

\* plot_spectra: `except Exception` prints and returns; error: the handler ran
plot_spectra(spectra_data, wl, derivative, savefig_fails) ==
    LET t == plot_try(spectra_data, wl, derivative, savefig_fails)
    IN  [t EXCEPT !.raised = FALSE] @@ [error |-> t.raised]

\* =============================================== process_mineral_data (85-110)
\* env: [wl, baseExists, tree, content]: the wavelength file, whether base_path
\* exists, the tree under base_path, and the text file at each path of the tree.
FileAt(e, path) == IF path \in DOMAIN e.content THEN e.content[path] ELSE NoFile

\* line 104
has_valid_data(reflectance) == ~reflectance.isNone /\ Len(reflectance.v) > 0

RECURSIVE read_files_stop_at_failure(_, _, _, _)
read_files_stop_at_failure(e, mineral_files, k, acc) ==
    IF k > Len(mineral_files) THEN acc
    ELSE LET reflectance == read_spectral_file(FileAt(e, mineral_files[k]))
         IN  IF has_valid_data(reflectance)
             THEN read_files_stop_at_failure(e, mineral_files, k + 1,
                                             dict_set(acc, mineral_files[k], reflectance.v))
             ELSE acc

\* the loop of lines 102-108 over mineral_files[k..]
RECURSIVE read_files(_, _, _, _)
read_files(e, mineral_files, k, acc) ==
    IF k > Len(mineral_files) THEN acc
    ELSE LET reflectance == read_spectral_file(FileAt(e, mineral_files[k]))
         IN  read_files(e, mineral_files, k + 1,
                        IF has_valid_data(reflectance)
                        THEN dict_set(acc, mineral_files[k], reflectance.v)
                        ELSE acc)

process_mineral_data(mineral_name, e) ==
    IF ~e.baseExists THEN <<>>
    ELSE read_files(e, find_mineral_files(mineral_name, e.tree), 1, <<>>)

\* ================================================================ main (112-205)
minerals == <<<<"s","m","e","c","t","i","t","e">>, <<"i","l","l","i","t","e">>, <<"c","h","l","o","r","i","t","e">>, <<"k","a","o","l","i","n","i","t","e">>,
              <<"d","o","l","o","m","i","t","e">>, <<"c","a","l","c","i","t","e">>, <<"q","u","a","r","t","z">>, <<"f","e","l","d","s","p","a","r">>>>

spectra_png(mineral) == mineral \o <<"_","s","p","e","c","t","r","a",".","p","n","g">>
derivative_png(mineral) == mineral \o <<"_","d","e","r","i","v","a","t","i","v","e",".","p","n","g">>
CombinedSpectraPng == <<"c","o","m","b","i","n","e","d","_","s","p","e","c","t","r","a",".","p","n","g">>
CombinedDerivativePng == <<"c","o","m","b","i","n","e","d","_","d","e","r","i","v","a","t","i","v","e",".","p","n","g">>

\* line 167
csv_name(mineral, sample_name) ==
    mineral \o <<"_">> \o replace(basename(sample_name), DotTxt, <<>>) \o <<"_","p","r","o","c","e","s","s","e","d",".","c","s","v">>

\* pd.DataFrame({...}) raises ValueError when its array columns differ in
\* length; a None derivative is a scalar and is broadcast
dataframe_raises(wl, reflectance, derivative) ==
    \/ Len(wl) # Len(reflectance)
    \/ (~derivative.isNone /\ Len(derivative.v) # Len(wl))

\* Writing a file replaces the file of that name.
WriteFile(d, name, content) ==
    [n \in DOMAIN d \cup {name} |-> IF n = name THEN content ELSE d[n]]

\* line 132: a missing wavelength array ends the run
wavelength_fatal_never(w) == FALSE
wavelength_fatal(w) == w.isNone

\* lines 185-188: the first item of each mineral's dict
combine_first_of_last(amd) ==
    [i \in 1..Len(amd) |-> [key |-> amd[i].key, val |-> amd[i].val[Len(amd[i].val)].val]]
combine_first(amd) ==
    [i \in 1..Len(amd) |-> [key |-> amd[i].key, val |-> amd[i].val[1].val]]

\* where main goes after the body of the for loop for minerals[mi]
AfterMineral(amd) ==
    IF mi < Len(minerals) THEN /\ pc' = "mineral" /\ mi' = mi + 1
    ELSE /\ pc' = (IF amd # <<>> THEN "combined_spectra" ELSE "done")
         /\ mi' = mi

Bump(h, f) == [h EXCEPT ![f] = h[f] + 1]

\* lines 131-136
MainReadWavelengths ==
    /\ pc = "start"
    /\ LET w == read_wavelength_file(env.wl)
       IN  /\ wavelengths' = w
           /\ hist' = Bump(hist, "wlReads")
           /\ IF wavelength_fatal(w)
              THEN /\ pc' = "done" /\ mi' = mi
                   /\ log' = Append(log, [msg |-> "Failed to read wavelength file. Exiting.",
                                          arg |-> <<>>])
              ELSE /\ pc' = "mineral" /\ mi' = 1
                   /\ log' = log
    /\ UNCHANGED <<env, mineral_data, all_mineral_data, csvIdx, disk, writes,
                   openFigures, faults, rd, fd, hf>>

\* lines 141-146 and 178-179: process_mineral_data and the test of its result
MainProcessMineral ==
    /\ pc = "mineral"
    /\ LET mineral == minerals[mi]
           md == process_mineral_data(mineral, env)
       IN  /\ mineral_data' = md
           /\ hist' = [hist EXCEPT !.visited = Append(hist.visited, mineral),
                                   !.finds = hist.finds + (IF env.baseExists THEN 1 ELSE 0)]
           /\ IF md # <<>>
              THEN /\ all_mineral_data' = dict_set(all_mineral_data, mineral, md)
                   /\ pc' = "plot_spectra" /\ mi' = mi
                   /\ log' = log
              ELSE /\ all_mineral_data' = all_mineral_data
                   /\ log' = Append(log, [msg |-> "No data found for", arg |-> mineral])
                   /\ AfterMineral(all_mineral_data)
    /\ UNCHANGED <<env, wavelengths, csvIdx, disk, writes, openFigures, faults, rd, fd, hf>>

\* One call plot_spectra(data, wavelengths, title, output_file, derivative) by main
\* and its effects on the disk, the open figures and the log.
CallPlot(data, output_file, derivative, next_pc) ==
    \E savefig_fails \in BOOLEAN :
        /\ savefig_fails => faults < MaxFaults
        /\ LET r == plot_spectra(data, IF wavelengths.isNone THEN <<>> ELSE wavelengths.v,
                                 derivative, savefig_fails)
           IN  /\ faults' = faults + (IF savefig_fails THEN 1 ELSE 0)
               /\ savefig_fails => r.reached_save
               /\ openFigures' = openFigures + r.figures
               /\ hist' = [hist EXCEPT !.plots = hist.plots + 1,
                                       !.lastPlot = [file |-> output_file, data |-> data,
                                                     derivative |-> derivative,
                                                     labels |-> r.labels, saved |-> r.saved,
                                                     error |-> r.error,
                                                     savefig_failed |-> savefig_fails]]
               /\ IF r.raised THEN /\ pc' = "crashed"
                                   /\ UNCHANGED <<disk, writes, log>>
                  ELSE /\ pc' = next_pc
                       /\ IF r.saved
                          THEN /\ disk' = WriteFile(disk, output_file,
                                                    [kind |-> "png", derivative |-> derivative,
                                                     labels |-> r.labels])
                               /\ writes' = Append(writes, output_file)
                               /\ log' = log
                          ELSE /\ UNCHANGED <<disk, writes>>
                               /\ log' = Append(log, [msg |-> "Error plotting spectra",
                                                      arg |-> output_file])

\* lines 149-154
MainPlotSpectra ==
    /\ pc = "plot_spectra"
    /\ CallPlot(mineral_data, spectra_png(minerals[mi]), FALSE, "plot_derivative")
    /\ UNCHANGED <<env, wavelengths, mi, mineral_data, all_mineral_data, csvIdx, rd, fd, hf>>

\* lines 157-163
MainPlotDerivative ==
    /\ pc = "plot_derivative"
    /\ CallPlot(mineral_data, derivative_png(minerals[mi]), TRUE, "save_csv")
    /\ csvIdx' = 1
    /\ UNCHANGED <<env, wavelengths, mi, mineral_data, all_mineral_data, rd, fd, hf>>

\* lines 166-177: one iteration of the CSV loop
MainSaveCSV ==
    /\ pc = "save_csv"
    /\ \E to_csv_fails \in BOOLEAN :
        /\ to_csv_fails => faults < MaxFaults
        /\ LET item == mineral_data[csvIdx]
               wl == IF wavelengths.isNone THEN <<>> ELSE wavelengths.v
               output_name == csv_name(minerals[mi], item.key)
               d == calculate_derivative(wl, item.val)
               df_raises == dataframe_raises(wl, item.val, d)
           IN  /\ to_csv_fails => ~df_raises
               /\ faults' = faults + (IF to_csv_fails THEN 1 ELSE 0)
               /\ IF df_raises \/ to_csv_fails
                  THEN /\ UNCHANGED <<disk, writes>>
                       /\ log' = Append(log, [msg |-> "Error saving processed data",
                                              arg |-> output_name])
                  ELSE /\ disk' = WriteFile(disk, output_name,
                                            [kind |-> "csv", sample |-> item.key,
                                             rows |-> Len(wl), reflectance |-> item.val,
                                             derivative |-> ~d.isNone])
                       /\ writes' = Append(writes, output_name)
                       /\ log' = log
    /\ hist' = Bump(hist, "csvs")
    /\ IF csvIdx < Len(mineral_data)
       THEN /\ csvIdx' = csvIdx + 1 /\ pc' = pc /\ mi' = mi
       ELSE /\ csvIdx' = 0 /\ AfterMineral(all_mineral_data)
    /\ UNCHANGED <<env, wavelengths, mineral_data, all_mineral_data, openFigures, rd, fd, hf>>

\* lines 191-196
MainCombinedSpectra ==
    /\ pc = "combined_spectra"
    /\ CallPlot(combine_first(all_mineral_data), CombinedSpectraPng, FALSE,
                "combined_derivative")
    /\ UNCHANGED <<env, wavelengths, mi, mineral_data, all_mineral_data, csvIdx, rd, fd, hf>>

\* lines 199-205
MainCombinedDerivative ==
    /\ pc = "combined_derivative"
    /\ CallPlot(combine_first(all_mineral_data), CombinedDerivativePng, TRUE, "done")
    /\ UNCHANGED <<env, wavelengths, mi, mineral_data, all_mineral_data, csvIdx, rd, fd, hf>>

\* -------------------------------------------------- the files main runs over
NumLine(n) == <<DigitChars[n + 1]>> \o NL
\* header and n values seed, seed+1, ...
GoodFile(n, seed) == TextFile(<<<<"r","e","f","l","e","c","t","a","n","c","e">> \o NL>> \o [i \in 1..n |-> NumLine(seed + i - 1)])
BadFile == TextFile(<<<<"r","e","f","l","e","c","t","a","n","c","e">> \o NL, <<"1">> \o NL, <<"n","/","a">> \o NL>>)
HeaderOnly == TextFile(<<<<"r","e","f","l","e","c","t","a","n","c","e">> \o NL, NL>>)

MainNames == <<<<"Q","u","a","r","t","z","_","A","S","D","F","R","_","A","R","E","F",".","t","x","t">>, <<"c","a","l","c","i","t","e","_","A","S","D","F","R","_","A","R","E","F",".","t","x","t">>>>
MainRoots == <<BasePath, SubDir>>
\* the c-th possible content of the spectral file named MainNames[n] under
\* MainRoots[r]: values that tell the files apart, too few values for the
\* filter, a malformed line, no values, or a file that cannot be opened
Content(r, n, c) ==
    CASE c = 1 -> GoodFile(WindowLength, 2 * r + n - 2)
      [] c = 2 -> GoodFile(WindowLength - 2, 2 * r + n - 2)
      [] c = 3 -> BadFile
      [] c = 4 -> HeaderOnly
      [] OTHER -> NoFile

WavelengthFiles == {NoFile, BadFile, GoodFile(WindowLength, 1), GoodFile(WindowLength - 2, 1)}

RootIndex(path) == IF SubSeq(path, 1, Len(path) - Len(basename(path)) - 1) = MainRoots[1]
                   THEN 1 ELSE 2
NameIndex(path) == CHOOSE n \in 1..Len(MainNames) : MainNames[n] = basename(path)

EmptyTree == [dirs |-> <<>>, failAt |-> 0]

\* base_path with one subdirectory, at most MaxFiles files in all (each name
\* at most once per directory), each with one of its possible contents; or no
\* base_path at all
MainEnvs(e) ==
    \E w \in WavelengthFiles :
       \/ e = [wl |-> w, baseExists |-> FALSE, tree |-> EmptyTree, content |-> <<>>]
       \/ \E ka \in 0..MaxFiles : \E kb \in 0..(MaxFiles - ka) :
          \E a \in [1..ka -> 1..Len(MainNames)], b \in [1..kb -> 1..Len(MainNames)] :
            /\ Injective(a) /\ Injective(b)
            /\ \E ca \in [1..ka -> 1..5], cb \in [1..kb -> 1..5] :
                 /\ e = [wl |-> w, baseExists |-> TRUE,
                         tree |-> [dirs |-> <<[root |-> MainRoots[1],
                                               files |-> [i \in 1..ka |-> MainNames[a[i]]]],
                                              [root |-> MainRoots[2],
                                               files |-> [i \in 1..kb |-> MainNames[b[i]]]]>>,
                                   failAt |-> 0],
                         content |->
                            [p \in {join(MainRoots[1], MainNames[a[i]]) : i \in 1..ka}
                                   \cup {join(MainRoots[2], MainNames[b[i]]) : i \in 1..kb} |->
                               LET r == RootIndex(p)
                                   n == NameIndex(p)
                                   c == IF r = 1 THEN ca[CHOOSE i \in 1..ka : a[i] = n]
                                        ELSE cb[CHOOSE i \in 1..kb : b[i] = n]
                               IN  Content(r, n, c)]]

NoPlot == [file |-> <<>>, data |-> <<>>, derivative |-> FALSE, labels |-> <<>>,
           saved |-> FALSE, error |-> FALSE, savefig_failed |-> FALSE]

MainInit ==
    /\ pc = "start" /\ MainEnvs(env) /\ wavelengths = None /\ mi = 0
    /\ mineral_data = <<>> /\ all_mineral_data = <<>> /\ csvIdx = 0
    /\ disk = <<>> /\ writes = <<>> /\ log = <<>> /\ openFigures = 0 /\ faults = 0
    /\ hist = [wlReads |-> 0, finds |-> 0, plots |-> 0, csvs |-> 0,
               visited |-> <<>>, lastPlot |-> NoPlot]

Init == MainInit /\ RdIdle /\ FdIdle /\ HfIdle
Next == \/ MainReadWavelengths
        \/ MainProcessMineral
        \/ MainPlotSpectra
        \/ MainPlotDerivative
        \/ MainSaveCSV
        \/ MainCombinedSpectra
        \/ MainCombinedDerivative
Spec == Init /\ [][Next]_vars

\* ============================== SpectralAnalyzer (huggingface_integration.py)
\* hf: [pc, wl, refl, temp, figures, calls]: the position in analyze_spectrum,
\* the lengths of its two arguments, whether temp_spectrum.png exists, the
\* figures left open and the calls made.  Nothing in either method catches an
\* exception: a failing step ends the call with pc = "raised".
MaxLen == 2         \* length of the arrays given to analyze_spectrum

HfInit == hf = [pc |-> "ready", wl |-> 0, refl |-> 0, temp |-> FALSE, figures |-> 0,
                calls |-> 0]

\* analyzer.analyze_spectrum(wavelengths, reflectance) is called
HfCall ==
    /\ hf.pc \in {"ready", "returned", "raised"}
    /\ hf.calls < MaxCalls
    /\ \E w \in 0..MaxLen, r \in 0..MaxLen :
          hf' = [hf EXCEPT !.pc = "plot", !.wl = w, !.refl = r, !.calls = hf.calls + 1]
    /\ UNCHANGED <<mainVars, rd, fd>>

\* lines 34-38: plt.figure, plt.plot (ValueError when the lengths differ)
HfFigurePlot ==
    /\ hf.pc = "plot"
    /\ hf' = [hf EXCEPT !.figures = hf.figures + 1,
                        !.pc = IF hf.wl # hf.refl THEN "raised" ELSE "savefig"]
    /\ UNCHANGED <<mainVars, rd, fd>>

\* lines 41-43: plt.savefig(temp_file), plt.close(); a failing savefig may
\* leave a partial file behind
HfSavefig ==
    /\ hf.pc = "savefig"
    /\ \/ hf' = [hf EXCEPT !.temp = TRUE, !.figures = hf.figures - 1, !.pc = "open"]
       \/ \E partial \in BOOLEAN :
             hf' = [hf EXCEPT !.temp = hf.temp \/ partial, !.pc = "raised"]
    /\ UNCHANGED <<mainVars, rd, fd>>

\* line 46: Image.open(temp_file)
HfImageOpen ==
    /\ hf.pc = "open"
    /\ \E ok \in BOOLEAN : hf' = [hf EXCEPT !.pc = IF ok THEN "remove" ELSE "raised"]
    /\ UNCHANGED <<mainVars, rd, fd>>

\* lines 49-51: os.remove(temp_file), return image
HfRemove ==
    /\ hf.pc = "remove"
    /\ \/ hf' = [hf EXCEPT !.temp = FALSE, !.pc = "extract"]
       \/ hf' = [hf EXCEPT !.pc = "raised"]
    /\ UNCHANGED <<mainVars, rd, fd>>

\* lines 68-69: self.feature_extractor(images=image, ...)
HfExtract ==
    /\ hf.pc = "extract"
    /\ \E ok \in BOOLEAN : hf' = [hf EXCEPT !.pc = IF ok THEN "model" ELSE "raised"]
    /\ UNCHANGED <<mainVars, rd, fd>>

\* lines 72-82: self.model(**inputs), softmax, return results
HfModel ==
    /\ hf.pc = "model"
    /\ \E ok \in BOOLEAN : hf' = [hf EXCEPT !.pc = IF ok THEN "returned" ELSE "raised"]
    /\ UNCHANGED <<mainVars, rd, fd>>

InitAnalyzer == HfInit /\ MainIdle /\ RdIdle /\ FdIdle
NextAnalyzer == \/ HfCall
                \/ HfFigurePlot
                \/ HfSavefig
                \/ HfImageOpen
                \/ HfRemove
                \/ HfExtract
                \/ HfModel
SpecAnalyzer == InitAnalyzer /\ [][NextAnalyzer]_vars

\* =================================================================== claims
\* ---- C5 ----
IsBlank(line) == \A i \in 1..Len(line) : line[i] \in Whitespace
IsValue(line) == ~py_float(line).raised
WellFormed(file) == /\ file.exists
                    /\ Len(file.lines) >= 1
                    /\ \A i \in 2..Len(file.lines) :
                          IsBlank(file.lines[i]) \/ IsValue(file.lines[i])
NonBlank(file) == {i \in 2..Len(file.lines) : ~IsBlank(file.lines[i])}

\* C5: for a file whose first line is a header and whose other lines are each
\* blank or one valid float, both readers return the values of the non-blank
\* lines after the header, in file order: the result has (lines after the
\* header) - (blank lines) values, and the header contributes none.
C5_ReaderReturnsValues ==
    (rd # <<>> /\ rd.step = "done" /\ WellFormed(rd.file)) =>
        LET nb == NonBlank(rd.file)
            blanks == {i \in 2..Len(rd.file.lines) : IsBlank(rd.file.lines[i])}
        IN  /\ ~rd.result.isNone
            /\ Len(rd.result.v) = (Len(rd.file.lines) - 1) - Cardinality(blanks)
            /\ \A i \in nb :
                  rd.result.v[Cardinality({j \in nb : j <= i})] = py_float(rd.file.lines[i]).v

\* a numeric header, a blank line between two values: two values come back
C5_Witness ==
    /\ rd # <<>> /\ rd.step = "done" /\ rd.fn = "read_spectral_file"
    /\ rd.file.lines = <<<<"7">> \o NL, <<" ","2",".","5">> \o NL, NL, <<"-","1"," ">> \o NL>>
    /\ rd.result = Some(<<[num |-> 25, scale |-> 1], [num |-> -1, scale |-> 0]>>)

\* ---- C6 ----
HasSub(s, sub) == \E i \in 0..(Len(s) - Len(sub)) : SubSeq(s, i + 1, i + Len(sub)) = sub
Selected(mineral_name, file) ==
    /\ HasSub(lower(file), lower(mineral_name))
    /\ Len(file) >= 4 /\ SubSeq(file, Len(file) - 3, Len(file)) = <<".","t","x","t">>
    /\ HasSub(file, <<"A","S","D","F","R">>)
    /\ HasSub(file, <<"A","R","E","F">>)
SelectedPaths(mineral_name, tree) ==
    {tree.dirs[k].root \o <<"/">> \o tree.dirs[k].files[j] :
        <<k, j>> \in {kj \in (1..Len(tree.dirs)) \X (1..(MaxDirFiles + 1)) :
                        /\ kj[2] <= Len(tree.dirs[kj[1]].files)
                        /\ Selected(mineral_name, tree.dirs[kj[1]].files[kj[2]])}}

\* C6: find_mineral_files returns exactly the files of the tree whose name
\* contains the mineral name (case-insensitively), ends with '.txt' and
\* contains 'ASDFR' and 'AREF' (case-sensitively), each once; it returns the
\* empty list when nothing matches or the traversal fails.
C6_FindExactlyMatching ==
    (fd # <<>> /\ fd.step = "done") =>
        IF fd.tree.failAt \in 1..Len(fd.tree.dirs)
        THEN fd.result = <<>>
        ELSE /\ {fd.result[i] : i \in 1..Len(fd.result)} = SelectedPaths(fd.mineral, fd.tree)
             /\ Injective(fd.result)

\* a tree with a matching file in each directory and non-matching ones beside
C6_Witness ==
    /\ fd # <<>> /\ fd.step = "done" /\ fd.mineral = <<"Q","u","a","r","t","z">> /\ fd.tree.failAt = 0
    /\ Len(fd.tree.dirs) = 2
    /\ fd.tree.dirs[1].files = <<<<"q","u","a","r","t","z","_","a","s","d","f","r","_","A","R","E","F",".","t","x","t">>, <<"Q","u","a","r","t","z","_","A","S","D","F","R","_","A","R","E","F",".","t","x","t">>>>
    /\ fd.tree.dirs[2].files = <<<<"Q","u","a","r","t","z","_","A","S","D","F","R","_","A","R","E","F",".","t","x","t">>, <<"c","a","l","c","i","t","e","_","A","S","D","F","R","_","A","R","E","F",".","t","x","t">>>>
    /\ Len(fd.result) = 2

\* ---- C2 ----
\* C2: temp_spectrum.png is deleted on every exit path of analyze_spectrum:
\* whenever the call has returned or raised, the file does not exist.
C2_TempFileDeleted ==
    (hf # <<>> /\ hf.pc \in {"returned", "raised"}) => ~hf.temp

\* ------------------------------------------------- helpers of the main claims
AfterLoop == {"combined_spectra", "combined_derivative", "done"}
\* the body of main's for loop has finished for minerals[i]
Complete(i) == ~wavelengths.isNone /\ (i < mi \/ pc \in AfterLoop)
RecordOf(m) == IF dict_has(all_mineral_data, m)
               THEN all_mineral_data[CHOOSE i \in 1..Len(all_mineral_data) :
                                        all_mineral_data[i].key = m].val
               ELSE <<>>
Logged(msg, arg) == \E i \in 1..Len(log) : log[i] = [msg |-> msg, arg |-> arg]
LoggedMsg(msg) == \E i \in 1..Len(log) : log[i].msg = msg
OutputsOf(m) == {n \in DOMAIN disk : StartsAt(n, m \o <<"_">>, 1)}
WrittenAt(name) == {i \in 1..Len(writes) : writes[i] = name}
\* a file that reads to a non-empty series: it opens, every line after the
\* header is blank or a value, and one of them is a value
ReadsToSeries(file) == WellFormed(file) /\ NonBlank(file) # {}
RECURSIVE Filter(_, _)
Filter(paths, e) ==
    IF paths = <<>> THEN <<>>
    ELSE (IF ReadsToSeries(FileAt(e, paths[1])) THEN <<paths[1]>> ELSE <<>>)
         \o Filter(Tail(paths), e)
\* the discovered paths of mineral m that read to a non-empty series
Discovered(m) == IF env.baseExists THEN find_mineral_files(m, env.tree) ELSE <<>>
GoodPaths(m) == Filter(Discovered(m), env)

Keys(d) == [i \in 1..Len(d) |-> d[i].key]

\* ---- C1 ----
\* C1: plot_spectra releases the figure it opened on every exit path, so no
\* figure is open after any sequence of plot_spectra calls.
C1_FigureReleased == openFigures = 0

\* ---- C3 ----
\* C3: no exception crosses a component boundary: under every combination of
\* missing or malformed files, a missing directory, a failing traversal, series
\* too short for the filter and failing savefig / to_csv, main never ends with
\* an uncaught exception and runs on until its normal return.
C3_NoExceptionEscapes ==
    pc # "idle" =>
        /\ pc # "crashed"
        /\ \/ pc = "done"
           \/ pc = "start"
           \/ pc = "mineral" /\ mi \in 1..Len(minerals)
           \/ pc \in {"plot_spectra", "plot_derivative"} /\ mi \in 1..Len(minerals)
           \/ pc = "save_csv" /\ mi \in 1..Len(minerals) /\ csvIdx \in 1..Len(mineral_data)
           \/ pc \in {"combined_spectra", "combined_derivative"}

\* main returned after an unparsable file, a failed plot and a failed CSV write
C3_Witness ==
    /\ pc = "done" /\ hist.visited = minerals /\ faults = 1
    /\ \E p \in DOMAIN env.content : env.content[p] = BadFile
    /\ LoggedMsg("Error plotting spectra")
    /\ LoggedMsg("Error saving processed data")

\* ---- C4 ----
\* C4: the wavelength file is read exactly once, before any mineral; when it
\* fails main does no discovery, reads no spectral file and writes nothing;
\* no other failure stops main before all eight minerals have been visited.
C4_WavelengthFatalOnly ==
    pc # "idle" =>
        /\ hist.wlReads = (IF pc = "start" THEN 0 ELSE 1)
        /\ hist.visited # <<>> => ~wavelengths.isNone
        /\ (pc # "start" /\ wavelengths.isNone) =>
              /\ pc = "done"
              /\ hist.finds = 0 /\ hist.visited = <<>>
              /\ hist.plots = 0 /\ hist.csvs = 0
              /\ disk = <<>> /\ writes = <<>>
        /\ (pc \in AfterLoop /\ ~wavelengths.isNone) => hist.visited = minerals
        /\ (pc \notin AfterLoop /\ pc # "start") =>
              hist.visited = SubSeq(minerals, 1, IF pc = "mineral" THEN mi - 1 ELSE mi)

\* all eight minerals visited although a read, a plot and a CSV write failed
C4_Witness ==
    /\ pc = "done" /\ ~wavelengths.isNone /\ hist.visited = minerals
    /\ faults = 1 /\ LoggedMsg("Error plotting spectra")
    /\ LoggedMsg("Error saving processed data")
    /\ \E p \in DOMAIN env.content : env.content[p] = NoFile

\* ---- C7 ----
\* C7: when the wavelength file loaded, every sample has the wavelength length
\* and no write fails, a mineral with k >= 1 samples produces
\* {mineral}_spectra.png, then {mineral}_derivative.png, then exactly k CSV
\* files; a mineral with no data produces no file and 'No data found for'.
C7_OutputsPerMineral ==
    \A i \in 1..Len(minerals) :
        (pc # "idle" /\ Complete(i) /\ faults = 0) =>
            LET m == minerals[i]
                rec == RecordOf(m)
                csvs == {n \in OutputsOf(m) : disk[n].kind = "csv"}
            IN  IF rec = <<>>
                THEN OutputsOf(m) = {} /\ Logged("No data found for", m)
                ELSE (\A j \in 1..Len(rec) : Len(rec[j].val) = Len(wavelengths.v)) =>
                        /\ spectra_png(m) \in DOMAIN disk
                        /\ derivative_png(m) \in DOMAIN disk
                        /\ Cardinality(csvs) = Len(rec)
                        /\ \A a \in WrittenAt(spectra_png(m)), b \in WrittenAt(derivative_png(m)) :
                              /\ a < b
                              /\ \A n \in csvs : \A c \in WrittenAt(n) : b < c

\* ---- C8 ----
\* the combined plots have been made, or skipped
CombinedMade == pc = "done" /\ ~wavelengths.isNone
\* the mapping given to the last plot_spectra call, when it was a combined plot
CombinedData == IF hist.lastPlot.file = CombinedDerivativePng THEN hist.lastPlot.data ELSE <<>>
EntryOf(d, m) == d[CHOOSE i \in 1..Len(d) : d[i].key = m].val

\* C8 as stated: the combined view has one entry per mineral that has data,
\* keyed by the mineral name, whose series is the reflectance of the first path
\* returned by find_mineral_files; no combined plot when no mineral has data.
C8_CombinedUsesFirstDiscovered ==
    CombinedMade =>
        LET d == CombinedData
        IN  /\ Injective(Keys(d))
            /\ \A i \in 1..Len(d) : \E j \in 1..Len(minerals) : d[i].key = minerals[j]
            /\ \A j \in 1..Len(minerals) :
                  LET m == minerals[j]
                      found == Discovered(m)
                      good == Filter(found, env)
                  IN  IF good = <<>> THEN ~dict_has(d, m)
                      ELSE /\ dict_has(d, m)
                           /\ Some(EntryOf(d, m)) = read_spectral_file(FileAt(env, found[1]))
            /\ d = <<>> => (hist.plots = 0 /\ hist.lastPlot = NoPlot)

\* C8 amended: the series is the reflectance of the first discovered path that
\* was read to a non-empty series.
C8_CombinedUsesFirstReadSample ==
    CombinedMade =>
        LET d == CombinedData
        IN  /\ Injective(Keys(d))
            /\ \A i \in 1..Len(d) : \E j \in 1..Len(minerals) : d[i].key = minerals[j]
            /\ \A j \in 1..Len(minerals) :
                  LET m == minerals[j]
                      good == GoodPaths(m)
                  IN  IF good = <<>> THEN ~dict_has(d, m)
                      ELSE /\ dict_has(d, m)
                           /\ Some(EntryOf(d, m)) = read_spectral_file(FileAt(env, good[1]))
            /\ d = <<>> => (hist.plots = 0 /\ hist.lastPlot = NoPlot)

\* quartz has two samples of different values; the combined entry is the first
C8_Witness ==
    /\ CombinedMade /\ Len(CombinedData) = 1
    /\ CombinedData[1].key = <<"q","u","a","r","t","z">>
    /\ Len(RecordOf(<<"q","u","a","r","t","z">>)) = 2
    /\ RecordOf(<<"q","u","a","r","t","z">>)[1].val # RecordOf(<<"q","u","a","r","t","z">>)[2].val
    /\ CombinedData[1].val = RecordOf(<<"q","u","a","r","t","z">>)[1].val
    /\ hist.lastPlot.saved

\* ---- C9 ----
TooShort(series) == Len(series) < WindowLength
RECURSIVE LabelsOfLongEnough(_)
LabelsOfLongEnough(d) ==
    IF d = <<>> THEN <<>>
    ELSE (IF TooShort(d[1].val) THEN <<>> ELSE <<basename(d[1].key)>>)
         \o LabelsOfLongEnough(Tail(d))

RECURSIVE LastWithName(_, _, _)
LastWithName(m, paths, name) ==
    IF csv_name(m, paths[Len(paths)]) = name THEN paths[Len(paths)]
    ELSE LastWithName(m, SubSeq(paths, 1, Len(paths) - 1), name)
\* the paths of good whose series has the length of the wavelength array
RECURSIVE Matching(_)
Matching(good) ==
    IF good = <<>> THEN <<>>
    ELSE (IF Len(read_spectral_file(FileAt(env, good[1])).v) = Len(wavelengths.v)
          THEN <<good[1]>> ELSE <<>>) \o Matching(Tail(good))

\* C10: a discovered file that cannot be read or parsed, or has no values, is
\* left out of the MineralRecord alone: the record's keys are exactly the
\* discovered paths that read to a non-empty series, and when main returns the
\* plots and CSV files are the ones of those paths, as if the failing file did
\* not exist.
C10_FailureIsLocal ==
    /\ pc \in {"plot_spectra", "plot_derivative", "save_csv"} =>
          Keys(mineral_data) = GoodPaths(minerals[mi])
    /\ \A i \in 1..Len(minerals) :
          (pc = "done" /\ ~wavelengths.isNone) =>
              LET m == minerals[i]
                  good == GoodPaths(m)
                  fit == Matching(good)
              IN  /\ Keys(RecordOf(m)) = good
                  /\ faults = 0 =>
                        /\ spectra_png(m) \in DOMAIN disk <=> (good # <<>> /\ fit = good)
                        /\ spectra_png(m) \in DOMAIN disk =>
                              disk[spectra_png(m)].labels = [j \in 1..Len(good) |-> basename(good[j])]
                        /\ {n \in OutputsOf(m) : disk[n].kind = "csv"}
                              = {csv_name(m, fit[j]) : j \in 1..Len(fit)}
                        /\ \A j \in 1..Len(fit) :
                              disk[csv_name(m, fit[j])].sample
                                 = LastWithName(m, fit, csv_name(m, fit[j]))

\* quartz has an unreadable first file and a good second one, whose CSV exists
C10_Witness ==
    /\ pc = "done" /\ faults = 0 /\ ~wavelengths.isNone
    /\ Len(Discovered(<<"q","u","a","r","t","z">>)) = 2
    /\ ~ReadsToSeries(FileAt(env, Discovered(<<"q","u","a","r","t","z">>)[1]))
    /\ Keys(RecordOf(<<"q","u","a","r","t","z">>)) = <<Discovered(<<"q","u","a","r","t","z">>)[2]>>
    /\ csv_name(<<"q","u","a","r","t","z">>, Discovered(<<"q","u","a","r","t","z">>)[2]) \in DOMAIN disk

====
